---- MODULE Spec2Model ----
(***************************************************************************)
(* Model of scalar.py: the rule-based helper functions (profile extractor, *)
(* nugget generator, solution scorer, discount mapper, email generator)    *)
(* and the Streamlit session state that the page handlers read and write.  *)
(*                                                                         *)
(* Python values are records tagged by "kind".  A str is a sequence of     *)
(* one-character strings, so that `in`, lower(), strip() and split() are   *)
(* computed on characters.  A float is an integer number of 1/Scale units. *)
(***************************************************************************)
EXTENDS Integers, Sequences, FiniteSets, TLC

VARIABLES
    \* st.session_state
    resume_data, masterclass_joined, team_info, challenge_score, discount,
    exit_popup_shown, participants,
    \* widgets of the current script run
    page, solution,
    \* a direct call of one helper function: its name, arguments and outcome
    fn, arg, ret, pc

session == <<resume_data, masterclass_joined, team_info, challenge_score,
             discount, exit_popup_shown, participants>>
widgets == <<page, solution>>
callvars == <<fn, arg, ret, pc>>
vars == <<resume_data, masterclass_joined, team_info, challenge_score, discount,
          exit_popup_shown, participants, page, solution, fn, arg, ret, pc>>

----------------------------------------------------------------------------
(* Bounds of the model *)

\* a resume text is the concatenation of at most MaxFrags fragments
MaxFrags == 2
\* a random.uniform draw is one of the RandGrid + 1 evenly spaced fractions
RandGrid == 13
\* the same, for the draws of the page handlers
UIRandGrid == 3
\* discount_by_score is called on every tenth from -ScoreBelow/10 to ScoreAbove/10
ScoreBelow == 20
ScoreAbove == 120
\* words of the long solution text
LongWords == 240
\* random.choice over the first TeamChoices team names / MateChoices teammate names
TeamChoices == 2
MateChoices == 1

----------------------------------------------------------------------------
(* Python values *)

\* a float is its value in units of 1/Scale
Scale == 10000

None == [kind |-> "None"]
Str(s) == [kind |-> "str", s |-> s]
Float(v) == [kind |-> "float", v |-> v]
PyInt(v) == [kind |-> "int", v |-> v]
EmptyDict == [kind |-> "dict"]
\* an uncaught exception leaving the function
Raise(exc) == [kind |-> "raise", exc |-> exc]

\* truthiness of a value: None, "" and {} are falsy
Truthy(v) ==
    CASE v.kind = "None" -> FALSE
      [] v.kind = "str" -> v.s # <<>>
      [] v.kind = "dict" -> DOMAIN v # {"kind"}
      [] v.kind \in {"float", "int"} -> v.v # 0
      [] OTHER -> TRUE

\* dict.get(key, default)
Get(d, key, default) == IF key \in DOMAIN d THEN d[key] ELSE default

----------------------------------------------------------------------------
(* str operations, on characters *)

\* the characters of the model in code point order
Ascii ==
    <<"\t", "\n", " ", "+", "-", ".", "/",
      "0", "1", "2", "3", "4", "5", "6", "7", "8", "9",
      "A", "B", "C", "D", "E", "F", "G", "H", "I", "J", "K", "L", "M",
      "N", "O", "P", "Q", "R", "S", "T", "U", "V", "W", "X", "Y", "Z",
      "a", "b", "c", "d", "e", "f", "g", "h", "i", "j", "k", "l", "m",
      "n", "o", "p", "q", "r", "s", "t", "u", "v", "w", "x", "y", "z">>

Ord(c) == CHOOSE i \in 1..Len(Ascii) : Ascii[i] = c

UpperCase == <<"A","B","C","D","E","F","G","H","I","J","K","L","M","N","O","P","Q","R","S","T","U","V","W","X","Y","Z">>
LowerCase == <<"a","b","c","d","e","f","g","h","i","j","k","l","m","n","o","p","q","r","s","t","u","v","w","x","y","z">>

LowerChar(c) ==
    IF \E i \in 1..Len(UpperCase) : UpperCase[i] = c
    THEN LowerCase[CHOOSE i \in 1..Len(UpperCase) : UpperCase[i] = c]
    ELSE c

\* the text left in the case it came in
lower_skipped(s) == s

\* s.lower()
lower(s) == [i \in 1..Len(s) |-> LowerChar(s[i])]

\* sub in s
Contains(sub, s) ==
    \E i \in 1..(Len(s) - Len(sub) + 1) : SubSeq(s, i, i + Len(sub) - 1) = sub

IsSpace(c) == c \in {" ", "\n", "\t"}

\* s.strip()
strip(s) ==
    LET ink == {i \in 1..Len(s) : ~IsSpace(s[i])}
    IN  IF ink = {} THEN <<>>
        ELSE SubSeq(s, CHOOSE i \in ink : \A j \in ink : i <= j,
                       CHOOSE i \in ink : \A j \in ink : j <= i)

\* s.split(): the position at which each whitespace-separated word starts
split(s) == {i \in 1..Len(s) : ~IsSpace(s[i]) /\ (i = 1 \/ IsSpace(s[i - 1]))}

\* s.replace(a, b) for single characters
replace(s, a, b) == [i \in 1..Len(s) |-> IF s[i] = a THEN b ELSE s[i]]

\* a < b on str: lexicographic by code point
StrLess(a, b) ==
    \E i \in 1..(Len(b)) :
        /\ i <= Len(a) + 1
        /\ \A j \in 1..(i - 1) : a[j] = b[j]
        /\ (i = Len(a) + 1 \/ Ord(a[i]) < Ord(b[i]))

RECURSIVE sorted_descending(_)
\* the list in descending order
sorted_descending(S) ==
    IF S = {} THEN <<>>
    ELSE LET m == CHOOSE x \in S : \A y \in S \ {x} : StrLess(y, x)
         IN  <<m>> \o sorted_descending(S \ {m})

RECURSIVE sorted(_)
\* sorted(list(S)) for a set of str
sorted(S) ==
    IF S = {} THEN <<>>
    ELSE LET m == CHOOSE x \in S : \A y \in S \ {x} : StrLess(x, y)
         IN  <<m>> \o sorted(S \ {m})

----------------------------------------------------------------------------
(* extract_profile_from_resume *)

\* the keywords dict, in insertion order
keywords ==
    << [role |-> "Software Engineer",
        kwlist |-> << <<"p","y","t","h","o","n">>, <<"j","a","v","a">>, <<"r","e","a","c","t">>, <<"j","a","v","a","s","c","r","i","p","t">>,
                      <<"b","a","c","k","e","n","d">>, <<"f","r","o","n","t","e","n","d">>, <<"a","p","i">>, <<"d","o","c","k","e","r">>,
                      <<"k","u","b","e","r","n","e","t","e","s">> >>],
       [role |-> "Data Analyst",
        kwlist |-> << <<"e","x","c","e","l">>, <<"t","a","b","l","e","a","u">>, <<"p","o","w","e","r"," ","b","i">>, <<"s","q","l">>,
                      <<"p","a","n","d","a","s">>, <<"v","i","s","u","a","l","i","z","a","t","i","o","n">>, <<"d","a","s","h","b","o","a","r","d">>,
                      <<"r","e","p","o","r","t","i","n","g">>, <<"r","f","m">>, <<"e","d","a">> >>],
       [role |-> "Data Scientist",
        kwlist |-> << <<"m","a","c","h","i","n","e"," ","l","e","a","r","n","i","n","g">>, <<"d","e","e","p"," ","l","e","a","r","n","i","n","g">>,
                      <<"t","e","n","s","o","r","f","l","o","w">>, <<"p","y","t","o","r","c","h">>, <<"s","c","i","k","i","t","-","l","e","a","r","n">>,
                      <<"m","l">>, <<"a","i">>, <<"p","a","n","d","a","s">>, <<"n","u","m","p","y">> >>],
       [role |-> "Product Manager",
        kwlist |-> << <<"p","r","o","d","u","c","t"," ","m","a","n","a","g","e","m","e","n","t">>, <<"r","o","a","d","m","a","p">>, <<"s","t","a","k","e","h","o","l","d","e","r">>,
                      <<"u","s","e","r"," ","r","e","s","e","a","r","c","h">>, <<"k","p","i">>, <<"m","e","t","r","i","c","s">> >>],
       [role |-> "DevOps Engineer",
        kwlist |-> << <<"a","w","s">>, <<"a","z","u","r","e">>, <<"c","i","/","c","d">>, <<"t","e","r","r","a","f","o","r","m">>,
                      <<"j","e","n","k","i","n","s">>, <<"i","n","f","r","a","s","t","r","u","c","t","u","r","e">> >>] >>

Roles == {keywords[i].role : i \in 1..Len(keywords)}

\* scores[role] after the loop, by position of the role in keywords
scores(text) ==
    [i \in 1..Len(keywords) |->
        Cardinality({k \in 1..Len(keywords[i].kwlist) :
                        Contains(keywords[i].kwlist[k], text)})]

\* found_skills after the loop
found_skills(text) ==
    UNION { {keywords[i].kwlist[k] : k \in {k \in 1..Len(keywords[i].kwlist) :
                                        Contains(keywords[i].kwlist[k], text)}} :
            i \in 1..Len(keywords) }

\* the last of the keys with the highest value
max_key_last(sc) ==
    CHOOSE i \in DOMAIN sc :
        /\ \A j \in DOMAIN sc : sc[j] <= sc[i]
        /\ \A j \in DOMAIN sc : j > i => sc[j] < sc[i]

\* max(scores, key=scores.get): the first key, in insertion order, whose
\* value no other key exceeds
max_key(sc) ==
    CHOOSE i \in DOMAIN sc :
        /\ \A j \in DOMAIN sc : sc[j] <= sc[i]
        /\ \A j \in DOMAIN sc : j < i => sc[j] < sc[i]

\* the role of the highest count with no default for a count of zero
best_role_no_default(text) == keywords[max_key(scores(text))].role

best_role(text) ==
    LET sc == scores(text)
        best == max_key(sc)
    IN  IF sc[best] = 0 THEN "Data Analyst" ELSE keywords[best].role

\* the buckets tried from the lowest up
exp_lowest_first(text) ==
    IF Contains(<<"j","u","n","i","o","r">>, text) \/ Contains(<<"1","+">>, text)
       \/ Contains(<<"1"," ","y","e","a","r">>, text) THEN 2
    ELSE IF Contains(<<"l","e","a","d">>, text) \/ Contains(<<"3","+">>, text)
            \/ Contains(<<"3"," ","y","e","a","r","s">>, text) THEN 4
    ELSE IF Contains(<<"s","e","n","i","o","r">>, text) \/ Contains(<<"5","+">>, text)
            \/ Contains(<<"5"," ","y","e","a","r","s">>, text) THEN 6
    ELSE 1

\* the experience approximation
exp(text) ==
    IF Contains(<<"s","e","n","i","o","r">>, text) \/ Contains(<<"5","+">>, text)
       \/ Contains(<<"5"," ","y","e","a","r","s">>, text) THEN 6
    ELSE IF Contains(<<"l","e","a","d">>, text) \/ Contains(<<"3","+">>, text)
            \/ Contains(<<"3"," ","y","e","a","r","s">>, text) THEN 4
    ELSE IF Contains(<<"j","u","n","i","o","r">>, text) \/ Contains(<<"1","+">>, text)
            \/ Contains(<<"1"," ","y","e","a","r">>, text) THEN 2
    ELSE 1

seniority(e) == IF e >= 5 THEN "Senior" ELSE IF e >= 3 THEN "Mid-level" ELSE "Junior"

\* resume_text[:100].replace('\n', ' ') + ('...' if len(resume_text) > 100 else '')
PreviewLen == 100
raw_text_preview(s) ==
    replace(SubSeq(s, 1, IF Len(s) < PreviewLen THEN Len(s) ELSE PreviewLen), "\n", " ")
        \o (IF Len(s) > PreviewLen THEN <<".",".",".">> ELSE <<>>)

extract_profile_from_resume(resume_text) ==
    IF ~Truthy(resume_text) THEN None
    ELSE LET text == lower(resume_text.s)
             e == exp(text)
         IN  [kind |-> "dict",
              role |-> best_role(text),
              experience_years |-> e,
              skills |-> sorted(found_skills(text)),
              seniority |-> seniority(e),
              raw_text_preview |-> raw_text_preview(resume_text.s)]

----------------------------------------------------------------------------
(* generate_personalized_nuggets *)

\* an f-string is the sequence of its literal and substituted parts

\* ', '.join(skills)
RECURSIVE join(_)
join(skills) ==
    IF skills = <<>> THEN <<>>
    ELSE IF Len(skills) = 1 THEN skills[1]
    ELSE skills[1] \o <<","," ">> \o join(Tail(skills))

\* skills[:n]
Slice(s, n) == SubSeq(s, 1, IF Len(s) < n THEN Len(s) ELSE n)

HeadlineSkills == 5

generate_personalized_nuggets(profile, masterclass_topic) ==
    IF ~Truthy(profile) THEN EmptyDict
    ELSE LET role == Get(profile, "role", "Professional")
             sen == Get(profile, "seniority", "Junior")
             skills == Slice(Get(profile, "skills", <<>>), HeadlineSkills)
             headline == <<role, " . ", sen, " . ",
                           IF skills # <<>> THEN join(skills)
                           ELSE <<"S","k","i","l","l","s"," ","n","o","t"," ","l","i","s","t","e","d">>>>
             nugget_2 == <<"Focus on project-based learning">>
             cta == <<"Join the 30-min challenge and earn up to 40% off our AI course">>
         IN  IF role = "Data Analyst"
             THEN [kind |-> "dict", headline |-> headline,
                   nugget_1 |-> <<"AI helps Data Analysts automate repetitive analysis">>,
                   nugget_2 |-> nugget_2, cta |-> cta,
                   extra_tip |-> <<"Try combining SQL + Python + visualization">>]
             ELSE [kind |-> "dict", headline |-> headline,
                   nugget_1 |-> <<"As a ", role, ", mastering ", masterclass_topic,
                                  " can help you build production-ready analytics">>,
                   nugget_2 |-> nugget_2, cta |-> cta]

----------------------------------------------------------------------------
(* the random source *)

\* random.uniform(a, b) when random() returns u / grid
uniform(a, b, u, grid) == a + ((b - a) * u) \div grid

Draws(grid) == 0..grid

\* round(x, 1): the nearest tenth; a value half way between two tenths goes
\* to either, as the binary value of the float decides
Tenth == Scale \div 10
Hundredth == Scale \div 100
round1(x) ==
    LET lo == (x \div Tenth) * Tenth
        r == x % Tenth
    IN  IF 2 * r < Tenth THEN {lo}
        ELSE IF 2 * r > Tenth THEN {lo + Tenth}
        ELSE {lo, lo + Tenth}

Min(a, b) == IF a < b THEN a ELSE b
Max(a, b) == IF a > b THEN a ELSE b

----------------------------------------------------------------------------
(* assign_random_team *)

team_names == <<"AI Innovators", "Code Crushers", "Data Wizards", "ML Masters",
                "Tech Titans", "Algorithm Aces">>
teammate_names == <<"Sarah K.", "Alex M.", "Priya S.", "John D.", "Maya R.",
                    "David L.", "Lisa C.", "Mike R.">>

\* every (team, teammates) the call can return
assign_random_team ==
    {<<team_names[t], mates>> :
        t \in 1..Min(TeamChoices, Len(team_names)),
        mates \in UNION {[1..count -> {teammate_names[m] :
                                        m \in 1..Min(MateChoices, Len(teammate_names))}] :
                         count \in {2, 3}}}

----------------------------------------------------------------------------
(* simulate_scoring *)

boosts == << [kw |-> <<"f","e","a","t","u","r","e">>, boost |-> 5 * Tenth],
             [kw |-> <<"v","a","l","i","d","a","t","i","o","n">>, boost |-> 7 * Tenth],
             [kw |-> <<"c","r","o","s","s">>, boost |-> 4 * Tenth],
             [kw |-> <<"e","n","s","e","m","b","l","e">>, boost |-> 6 * Tenth],
             [kw |-> <<"h","y","p","e","r","p","a","r","a","m","e","t","e","r">>, boost |-> 6 * Tenth] >>

RECURSIVE boost_sum(_, _)
\* the boosts of boosts[i..] that text earns
boost_sum(text, i) ==
    IF i > Len(boosts) THEN 0
    ELSE (IF Contains(boosts[i].kw, text) THEN boosts[i].boost ELSE 0)
         + boost_sum(text, i + 1)

\* the placeholder score of a blank solution drawn from [4.0, 7.5]
simulate_scoring_wide_placeholder(solution_text, u, grid) ==
    IF ~Truthy(solution_text) \/ strip(solution_text.s) = <<>>
    THEN {Float(uniform(4 * Scale, 75 * Tenth, u, grid))}
    ELSE LET text == lower(solution_text.s)
             base == Min(10 * Scale, 3 * Scale + Cardinality(split(text)) * 3 * Hundredth)
             score == base + boost_sum(text, 1) + uniform(-5 * Tenth, 8 * Tenth, u, grid)
         IN  {Float(r) : r \in round1(Max(0, Min(10 * Scale, score)))}

\* every value the call can return when the random source returns u / grid
simulate_scoring(solution_text, u, grid) ==
    IF ~Truthy(solution_text) \/ strip(solution_text.s) = <<>>
    THEN {Float(uniform(4 * Scale, 65 * Tenth, u, grid))}
    ELSE LET text == lower(solution_text.s)
             base == Min(10 * Scale, 3 * Scale + Cardinality(split(text)) * 3 * Hundredth)
             score == base + boost_sum(text, 1) + uniform(-5 * Tenth, 8 * Tenth, u, grid)
         IN  {Float(r) : r \in round1(Max(0, Min(10 * Scale, score)))}

----------------------------------------------------------------------------
(* discount_by_score *)

\* the thresholds taken as exclusive lower bounds
discount_by_score_exclusive(score) ==
    IF score.v > 9 * Scale THEN [kind |-> "dict", tier |-> "40% OFF", savings |-> "40%"]
    ELSE IF score.v > 8 * Scale THEN [kind |-> "dict", tier |-> "30% OFF", savings |-> "30%"]
    ELSE IF score.v > 7 * Scale THEN [kind |-> "dict", tier |-> "20% OFF", savings |-> "20%"]
    ELSE [kind |-> "dict", tier |-> "15% OFF (Participant)", savings |-> "15%"]

discount_by_score(score) ==
    IF score.v >= 9 * Scale THEN [kind |-> "dict", tier |-> "40% OFF", savings |-> "40%"]
    ELSE IF score.v >= 8 * Scale THEN [kind |-> "dict", tier |-> "30% OFF", savings |-> "30%"]
    ELSE IF score.v >= 7 * Scale THEN [kind |-> "dict", tier |-> "20% OFF", savings |-> "20%"]
    ELSE [kind |-> "dict", tier |-> "15% OFF (Participant)", savings |-> "15%"]

----------------------------------------------------------------------------
(* generate_personalized_email *)

EmailTypes == {"2 Hours Post-Exit", "24 Hours Later", "Final Reminder (7 days)"}

generate_personalized_email(profile, masterclass_topic, email_type) ==
    IF profile.kind # "dict" THEN Raise("AttributeError")
    ELSE LET name == Get(profile, "name", "[Name]")
             role == Get(profile, "role", "Professional")
             sen == Get(profile, "seniority", "")
         IN  IF email_type = "2 Hours Post-Exit"
             THEN [kind |-> "dict",
                   subject |-> <<"That moment from today's ", masterclass_topic>>,
                   content |-> <<"Hi ", name, "attended the ", masterclass_topic,
                                 "As a ", sen, role, "[CLAIM 40% OFF]">>]
             ELSE IF email_type = "24 Hours Later"
             THEN [kind |-> "dict",
                   subject |-> <<"Your peers are already advancing">>,
                   content |-> <<"Hi ", name, "Many ", <<"lower", role>>, "s like you",
                                 "for ", sen, role, "[SECURE YOUR SPOT]">>]
             ELSE [kind |-> "dict",
                   subject |-> <<"A note from your future self">>,
                   content |-> <<"Hi ", name, "As a ", role,
                                 "[ENROLL NOW - FINAL REMINDER]">>]

----------------------------------------------------------------------------
(* Inputs of the direct calls *)

ResumeFragments ==
    { <<"P","y","t","h","o","n">>, <<"j","a","v","a","s","c","r","i","p","t">>, <<"s","q","l">>, <<"p","a","n","d","a","s">>, <<"h","t","m","l">>, <<"r","o","a","d","m","a","p">>,
      <<"a","w","s">>, <<"S","e","n","i","o","r"," ">>, <<"l","e","a","d">>, <<"j","u","n","i","o","r">>, <<"3"," ","y","e","a","r","s">>, <<"1","+">>,
      <<" ">>, <<"\n">>, <<"h","i">> }

RECURSIVE Concats(_)
\* the concatenations of at most n fragments
Concats(n) ==
    IF n = 0 THEN {<<>>}
    ELSE LET shorter == Concats(n - 1)
         IN  shorter \cup {t \o f : t \in shorter, f \in ResumeFragments}

ResumeTexts == Concats(MaxFrags)

\* n one-letter words, each followed by a space
Words(n) == [i \in 1..(2 * n) |-> IF i % 2 = 1 THEN "a" ELSE " "]

SolutionTexts ==
    { <<>>, <<" ">>, <<" ","\n","\t">>, <<"f","e","a","t","u","r","e">>, <<"c","r","o","s","s"," ","v","a","l","i","d","a","t","i","o","n">>,
      <<"E","n","s","e","m","b","l","e"," ","o","f"," ","m","o","d","e","l","s",","," ","H","y","p","e","r","p","a","r","a","m","e","t","e","r"," ","s","e","a","r","c","h",","," ","f","e","a","t","u","r","e"," ","C","R","O","S","S","-","V","A","L","I","D","A","T","I","O","N">>,
      <<"w","e"," ","t","u","n","e"," ","i","t">>, Words(LongWords), Words(LongWords) \o <<"v","a","l","i","d","a","t","i","o","n"," ","e","n","s","e","m","b","l","e">> }

Topic == "AI & Machine Learning"

\* the profile page 1 stores: the extractor's result with a name attached
WithName(profile) ==
    [k \in DOMAIN profile \cup {"name"} |->
        IF k = "name" THEN "Candidate" ELSE profile[k]]

ProfileInputs ==
    {None, EmptyDict}
        \cup {WithName(extract_profile_from_resume(Str(t))) :
                t \in {<<"P","y","t","h","o","n"," ","a","n","d"," ","s","q","l",","," ","5"," ","y","e","a","r","s">>, <<"s","q","l"," ","l","e","a","d">>, <<"h","i">>}}
        \cup {extract_profile_from_resume(Str(<<"a","w","s">>))}

ScoreInputs ==
    {k * Tenth : k \in (0 - ScoreBelow)..ScoreAbove}
        \cup {t * Scale + d : t \in {7, 8, 9}, d \in {-1, 1}}

----------------------------------------------------------------------------
(* A direct call of one helper: Init draws the function and its arguments, *)
(* the call action applies the function                                    *)

SessionInit ==
    /\ resume_data = None
    /\ masterclass_joined = FALSE
    /\ team_info = None
    /\ challenge_score = None
    /\ discount = None
    /\ exit_popup_shown = FALSE
    /\ participants = None
    /\ page = 1
    /\ solution = Str(<<>>)

CallInputs ==
    {<<"extract_profile_from_resume", [resume_text |-> x]>> :
        x \in {None} \cup {Str(t) : t \in ResumeTexts}}
    \cup {<<"generate_personalized_nuggets",
            [profile |-> p, masterclass_topic |-> Topic]>> : p \in ProfileInputs}
    \cup {<<"generate_personalized_email",
            [profile |-> p, masterclass_topic |-> Topic, email_type |-> e]>> :
            p \in ProfileInputs, e \in EmailTypes \cup {"Next week"}}
    \cup {<<"simulate_scoring", [solution_text |-> x]>> :
            x \in {None} \cup {Str(t) : t \in SolutionTexts}}
    \cup {<<"discount_by_score", [score |-> Float(v)]>> : v \in ScoreInputs}

InitFn ==
    /\ SessionInit
    /\ pc = "call"
    /\ ret = None
    /\ \E c \in CallInputs : fn = c[1] /\ arg = c[2]

Return(value) ==
    /\ ret' = value
    /\ pc' = "done"
    /\ UNCHANGED <<fn, arg, session, widgets>>

Call_extract_profile_from_resume ==
    /\ pc = "call" /\ fn = "extract_profile_from_resume"
    /\ Return(extract_profile_from_resume(arg.resume_text))

Call_generate_personalized_nuggets ==
    /\ pc = "call" /\ fn = "generate_personalized_nuggets"
    /\ Return(generate_personalized_nuggets(arg.profile, arg.masterclass_topic))

\* the extractor's result handed on to the nugget generator
Then_generate_personalized_nuggets ==
    /\ pc = "done" /\ fn = "extract_profile_from_resume"
    /\ fn' = "generate_personalized_nuggets"
    /\ arg' = [profile |-> ret, masterclass_topic |-> Topic,
               resume_text |-> arg.resume_text]
    /\ ret' = generate_personalized_nuggets(ret, Topic)
    /\ pc' = "done"
    /\ UNCHANGED <<session, widgets>>

Call_generate_personalized_email ==
    /\ pc = "call" /\ fn = "generate_personalized_email"
    /\ Return(generate_personalized_email(arg.profile, arg.masterclass_topic,
                                          arg.email_type))

Call_simulate_scoring ==
    /\ pc = "call" /\ fn = "simulate_scoring"
    /\ \E u \in Draws(RandGrid) :
        \E r \in simulate_scoring(arg.solution_text, u, RandGrid) : Return(r)

Call_discount_by_score ==
    /\ pc = "call" /\ fn = "discount_by_score"
    /\ Return(discount_by_score(arg.score))

NextFn ==
    \/ Call_extract_profile_from_resume
    \/ Call_generate_personalized_nuggets
    \/ Then_generate_personalized_nuggets
    \/ Call_generate_personalized_email
    \/ Call_simulate_scoring
    \/ Call_discount_by_score

SpecFn == InitFn /\ [][NextFn]_vars

----------------------------------------------------------------------------
(* The app: one action per widget event, each a whole run of the script *)

Pages == 1..5

UIResumeTexts == { <<"P","y","t","h","o","n"," ","r","o","a","d","m","a","p">>, <<"s","q","l"," ","S","e","n","i","o","r">>, <<"h","i">> }
UISolutions == { <<>>, <<" ","\n">>, <<"c","r","o","s","s"," ","v","a","l","i","d","a","t","i","o","n">> }

\* what the handlers compute for each input of the model, computed once
Analyzed == [t \in UIResumeTexts |-> extract_profile_from_resume(Str(t))]
Scored ==
    [s \in UISolutions |->
        [u \in Draws(UIRandGrid) |-> simulate_scoring(Str(s), u, UIRandGrid)]]

Init ==
    /\ SessionInit
    /\ fn = "none"
    /\ arg = None
    /\ ret = None
    /\ pc = "idle"

\* page 2, col2: the participation counter moves on every run that shows page 2
ParticipantsStart == 12
ParticipantsCap == 50
RandintMax == 5
ShowParticipation ==
    \E r \in 0..RandintMax :
        participants' =
            PyInt(Min(ParticipantsCap,
                      Get(participants, "v", ParticipantsStart) + r))

\* the selectbox: another page is chosen; the widgets of the page left are gone
SelectPage(p) ==
    /\ p # page
    /\ page' = p
    /\ solution' = Str(<<>>)
    /\ IF p = 2 THEN ShowParticipation ELSE UNCHANGED participants
    /\ UNCHANGED <<resume_data, masterclass_joined, team_info, challenge_score,
                   discount, exit_popup_shown, callvars>>

\* page 1: "Load sample resume" sets a local and reruns the script
LoadSampleResume ==
    /\ page = 1
    /\ UNCHANGED vars

\* page 1: "Analyze Resume & Generate Profile" with resume_text in the text
\* area or read from the uploaded file
AnalyzeResume(resume_text) ==
    /\ page = 1
    /\ Truthy(resume_text)
    /\ resume_data' = WithName(Analyzed[resume_text.s])
    /\ UNCHANGED <<masterclass_joined, team_info, challenge_score, discount,
                   exit_popup_shown, participants, widgets, callvars>>

\* the join button shown and handled whether or not the session has joined
JoinChallenge_unguarded ==
    /\ page = 2
    /\ masterclass_joined' = TRUE
    /\ \E t \in assign_random_team :
        team_info' = [kind |-> "dict", team |-> t[1], teammates |-> t[2]]
    /\ ShowParticipation
    /\ UNCHANGED <<resume_data, challenge_score, discount, exit_popup_shown,
                   widgets, callvars>>

\* page 2: "JOIN THE LIVE CHALLENGE"
JoinChallenge ==
    /\ page = 2
    /\ ~masterclass_joined
    /\ masterclass_joined' = TRUE
    /\ \E t \in assign_random_team :
        team_info' = [kind |-> "dict", team |-> t[1], teammates |-> t[2]]
    /\ ShowParticipation
    /\ UNCHANGED <<resume_data, challenge_score, discount, exit_popup_shown,
                   widgets, callvars>>

\* page 3: the solution text area is edited
EditSolution(s) ==
    /\ page = 3
    /\ s # solution
    /\ solution' = s
    /\ UNCHANGED <<session, page, callvars>>

\* page 3: "Submit Solution for AI Review"
SubmitSolution ==
    /\ page = 3
    /\ \E u \in Draws(UIRandGrid) :
        \E score \in Scored[solution.s][u] :
            /\ challenge_score' = score
            /\ discount' = discount_by_score(score)
    /\ UNCHANGED <<resume_data, masterclass_joined, team_info, exit_popup_shown,
                   participants, widgets, callvars>>

\* the quick test storing its score and leaving the discount as it was
QuickAutoTest_score_only ==
    /\ page = 3
    /\ \E u \in Draws(UIRandGrid) :
        \E r \in round1(uniform(7 * Scale, 95 * Tenth, u, UIRandGrid)) :
            challenge_score' = Float(r)
    /\ UNCHANGED <<resume_data, masterclass_joined, team_info, discount,
                   exit_popup_shown, participants, widgets, callvars>>

\* page 3: "Quick Auto-Test (simulate)"
QuickAutoTest ==
    /\ page = 3
    /\ \E u \in Draws(UIRandGrid) :
        \E r \in round1(uniform(7 * Scale, 95 * Tenth, u, UIRandGrid)) :
            /\ challenge_score' = Float(r)
            /\ discount' = discount_by_score(Float(r))
    /\ UNCHANGED <<resume_data, masterclass_joined, team_info, exit_popup_shown,
                   participants, widgets, callvars>>

\* page 3: "CLAIM DISCOUNT & ENROLL", shown once there is a score
ClaimDiscount ==
    /\ page = 3
    /\ Truthy(challenge_score)
    /\ UNCHANGED vars

\* page 4: "I'm leaving"; the page stops before its buttons without a profile
Leaving ==
    /\ page = 4
    /\ Truthy(resume_data)
    /\ exit_popup_shown' = TRUE
    /\ UNCHANGED <<resume_data, masterclass_joined, team_info, challenge_score,
                   discount, participants, widgets, callvars>>

\* page 4: "CLAIM 40% OFF NOW" or "Maybe later" of the exit popup
CloseExitPopup ==
    /\ page = 4
    /\ Truthy(resume_data)
    /\ exit_popup_shown
    /\ exit_popup_shown' = FALSE
    /\ UNCHANGED <<resume_data, masterclass_joined, team_info, challenge_score,
                   discount, participants, widgets, callvars>>

\* page 5: "Generate Email" shows the template of the chosen type
GenerateEmail(email_type) ==
    /\ page = 5
    /\ Truthy(resume_data)
    /\ generate_personalized_email(resume_data, Topic, email_type).kind = "dict"
    /\ UNCHANGED vars

Next ==
    \/ \E p \in Pages : SelectPage(p)
    \/ LoadSampleResume
    \/ \E t \in UIResumeTexts : AnalyzeResume(Str(t))
    \/ JoinChallenge
    \/ \E s \in UISolutions : EditSolution(Str(s))
    \/ SubmitSolution
    \/ QuickAutoTest
    \/ ClaimDiscount
    \/ Leaving
    \/ CloseExitPopup
    \/ \E e \in EmailTypes : GenerateEmail(e)

Spec == Init /\ [][Next]_vars

----------------------------------------------------------------------------
(* Properties *)

\* the direct call of f has returned (or raised)
Done(f) == pc = "done" /\ fn = f

\* C1: discount_by_score is a threshold lookup with inclusive lower bounds,
\* total over every score: >= 9.0 gives 40%, [8.0, 9.0) gives 30%,
\* [7.0, 8.0) gives 20% and every other score, negative ones included, gives
\* the 15% participant tier; 8.9999 gives 30% and exactly 7.0 gives 20%.
C1_DiscountThresholds ==
    Done("discount_by_score") =>
        LET s == arg.score.v
        IN  /\ ret.kind = "dict"
            /\ s >= 9 * Scale => ret.savings = "40%" /\ ret.tier = "40% OFF"
            /\ (8 * Scale <= s /\ s < 9 * Scale) =>
                    ret.savings = "30%" /\ ret.tier = "30% OFF"
            /\ (7 * Scale <= s /\ s < 8 * Scale) =>
                    ret.savings = "20%" /\ ret.tier = "20% OFF"
            /\ s < 7 * Scale =>
                    ret.savings = "15%" /\ ret.tier = "15% OFF (Participant)"
            /\ s = 9 * Scale - 1 => ret.savings = "30%"
            /\ s = 7 * Scale => ret.savings = "20%"

\* discount_by_score(7.0) has returned the 20% tier
C1_Witness ==
    /\ Done("discount_by_score")
    /\ arg.score.v = 7 * Scale
    /\ ret.savings = "20%"

\* C2: for any input string and any outcome of the random source, the value
\* simulate_scoring returns is within [0.0, 10.0] and rounded to one decimal.
C2_ScoreInRangeAndRounded ==
    (Done("simulate_scoring") /\ arg.solution_text.kind = "str") =>
        /\ ret.kind = "float"
        /\ 0 <= ret.v /\ ret.v <= 10 * Scale
        /\ ret.v % Tenth = 0

\* C3: extract_profile_from_resume, generate_personalized_nuggets and
\* generate_personalized_email each return an empty or sentinel result when
\* the resume or profile is empty or absent, and none of them raises.
C3_MissingInputNeverFails ==
    /\ (Done("extract_profile_from_resume") /\ ~Truthy(arg.resume_text)) =>
            ret = None
    /\ (Done("generate_personalized_nuggets") /\ ~Truthy(arg.profile)) =>
            ret = EmptyDict
    /\ (Done("generate_personalized_email") /\ ~Truthy(arg.profile)) =>
            ret.kind # "raise" /\ ret \in {None, EmptyDict}

\* the roles in the order the keywords dict declares them
DeclaredRoles ==
    <<"Software Engineer", "Data Analyst", "Data Scientist", "Product Manager",
      "DevOps Engineer">>

\* a text with its upper-case letters replaced by the lower-case ones
CaseFolded(t) == [i \in 1..Len(t) |-> LowerChar(t[i])]

\* the keywords of the i-th declared role that occur in the text, case ignored
Matched(i, t) ==
    {k \in 1..Len(keywords[i].kwlist) :
        Contains(keywords[i].kwlist[k], CaseFolded(t))}

\* extract_profile_from_resume has returned for a non-empty resume text
Extracted ==
    /\ Done("extract_profile_from_resume")
    /\ arg.resume_text.kind = "str"
    /\ arg.resume_text.s # <<>>

\* C4: for every non-empty resume text that contains a keyword of exactly
\* one role's list and none of any other role's list,
\* extract_profile_from_resume returns that role.
C4_SingleRoleKeywords ==
    Extracted =>
        \A i \in 1..Len(DeclaredRoles) :
            (/\ Matched(i, arg.resume_text.s) # {}
             /\ \A j \in 1..Len(DeclaredRoles) :
                    j # i => Matched(j, arg.resume_text.s) = {})
                => ret.role = DeclaredRoles[i]

\* a text whose only keyword is "Python", written with a capital, gave
\* Software Engineer
C4_Witness ==
    /\ Extracted
    /\ Contains(<<"P","y","t","h","o","n">>, arg.resume_text.s)
    /\ Matched(1, arg.resume_text.s) # {}
    /\ \A j \in 2..5 : Matched(j, arg.resume_text.s) = {}
    /\ ret.role = "Software Engineer"

\* C5: for every non-empty resume text that contains no keyword of any
\* role's list, extract_profile_from_resume returns role Data Analyst and an
\* empty skills list.
C5_NoKeywordDefaultsToDataAnalyst ==
    Extracted =>
        ((\A i \in 1..Len(DeclaredRoles) : Matched(i, arg.resume_text.s) = {})
            => ret.role = "Data Analyst" /\ ret.skills = <<>>)

\* a text without any keyword gave Data Analyst
C5_Witness ==
    /\ Extracted
    /\ \A i \in 1..Len(DeclaredRoles) : Matched(i, arg.resume_text.s) = {}
    /\ Contains(<<"h", "i">>, arg.resume_text.s)
    /\ ret.role = "Data Analyst"
    /\ ret.skills = <<>>

\* the position of a role in the declaration order
Position(role) == CHOOSE i \in 1..Len(DeclaredRoles) : DeclaredRoles[i] = role

C7_ExperienceBuckets ==
    Extracted =>
        LET t == CaseFolded(arg.resume_text.s)
            has(w) == Contains(w, t)
            b6 == has(<<"s","e","n","i","o","r">>) \/ has(<<"5","+">>)
                    \/ has(<<"5"," ","y","e","a","r","s">>)
            b4 == has(<<"l","e","a","d">>) \/ has(<<"3","+">>)
                    \/ has(<<"3"," ","y","e","a","r","s">>)
            b2 == has(<<"j","u","n","i","o","r">>) \/ has(<<"1","+">>)
                    \/ has(<<"1"," ","y","e","a","r">>)
            e == ret.experience_years
        IN  /\ b6 => e = 6
            /\ (~b6 /\ b4) => e = 4
            /\ (~b6 /\ ~b4 /\ b2) => e = 2
            /\ (~b6 /\ ~b4 /\ ~b2) => e = 1
            /\ ret.seniority = (IF e >= 5 THEN "Senior"
                                ELSE IF e >= 3 THEN "Mid-level" ELSE "Junior")
            /\ <<e, ret.seniority>> \in
                    {<<6, "Senior">>, <<4, "Mid-level">>, <<2, "Junior">>,
                     <<1, "Junior">>}

\* a text with both "senior" and "junior" got the senior bucket
C7_Witness ==
    /\ Extracted
    /\ Contains(<<"s","e","n","i","o","r">>, CaseFolded(arg.resume_text.s))
    /\ Contains(<<"j","u","n","i","o","r">>, CaseFolded(arg.resume_text.s))
    /\ ret.experience_years = 6
    /\ ret.seniority = "Senior"

\* a < b for every two neighbours of the list
Ascending(list) == \A i \in 1..(Len(list) - 1) : StrLess(list[i], list[i + 1])

\* C8: empty resume text makes extract_profile_from_resume return None, and
\* generate_personalized_nuggets called with that None returns an empty
\* nugget set; for every non-empty resume text the extractor returns a
\* profile with role, experience_years, skills (sorted) and seniority
\* populated.
C8_EmptyResumeAndPopulatedProfile ==
    /\ (Done("extract_profile_from_resume") /\ arg.resume_text = Str(<<>>)) =>
            ret = None
    /\ (Done("generate_personalized_nuggets") /\ "resume_text" \in DOMAIN arg
            /\ arg.resume_text = Str(<<>>)) =>
            arg.profile = None /\ ret = EmptyDict
    /\ Extracted =>
        /\ ret.kind = "dict"
        /\ {"role", "experience_years", "skills", "seniority"} \subseteq DOMAIN ret
        /\ ret.role \in {DeclaredRoles[i] : i \in 1..Len(DeclaredRoles)}
        /\ ret.experience_years \in Nat \ {0}
        /\ ret.seniority \in {"Junior", "Mid-level", "Senior"}
        /\ Ascending(ret.skills)
        /\ {ret.skills[i] : i \in 1..Len(ret.skills)} =
                UNION {{keywords[i].kwlist[k] : k \in Matched(i, arg.resume_text.s)} :
                        i \in 1..Len(DeclaredRoles)}

\* the extractor returned None for the empty text and the nugget generator,
\* given that None, returned the empty dict
C8_Witness ==
    /\ Done("generate_personalized_nuggets")
    /\ "resume_text" \in DOMAIN arg
    /\ arg.resume_text = Str(<<>>)
    /\ arg.profile = None
    /\ ret = EmptyDict

\* a solution text that is empty or only whitespace
Blank(text) == text.kind = "str" /\ \A i \in 1..Len(text.s) : IsSpace(text.s[i])

\* C9: submitting an empty or whitespace-only solution yields a score in
\* [4.0, 6.5] for every outcome of the random source, and the discount
\* assigned from that score is the 15% participant tier.
C9_BlankSubmissionGetsParticipantTier ==
    [][(Blank(solution) /\ SubmitSolution) =>
        /\ challenge_score'.kind = "float"
        /\ 4 * Scale <= challenge_score'.v /\ challenge_score'.v <= 65 * Tenth
        /\ discount'.savings = "15%"
        /\ discount'.tier = "15% OFF (Participant)"]_vars

\* on page 3 with a whitespace-only solution in the text area, the session
\* holds a score that only the blank submission produces (it is not rounded)
\* and the participant tier
C9_Witness ==
    /\ page = 3
    /\ Blank(solution) /\ solution.s # <<>>
    /\ challenge_score.kind = "float"
    /\ challenge_score.v % Tenth # 0
    /\ 4 * Scale <= challenge_score.v /\ challenge_score.v <= 65 * Tenth
    /\ discount.kind = "dict"
    /\ discount.savings = "15%"

\* C10: when two or more roles tie for the highest keyword count, or when
\* all counts are zero, the role extract_profile_from_resume returns is Data
\* Analyst.
C10_TieOrZeroGivesDataAnalyst ==
    Extracted =>
        LET t == arg.resume_text.s
            n(i) == Cardinality(Matched(i, t))
            top == {i \in 1..Len(DeclaredRoles) :
                        \A j \in 1..Len(DeclaredRoles) : n(j) <= n(i)}
        IN  Cardinality(top) >= 2 => ret.role = "Data Analyst"

\* challenge_score and discount are both unset, or both set with the
\* discount that discount_by_score gives for the score
ScoreAndDiscountAgree ==
    \/ challenge_score = None /\ discount = None
    \/ /\ challenge_score.kind = "float"
       /\ discount = discount_by_score(challenge_score)

\* C11: after any sequence of UI events, challenge_score and discount are
\* either both None or both set with discount equal to
\* discount_by_score(challenge_score); no event updates one without the
\* other, and neither is reset to None once set.
C11_ScoreAndDiscountSetTogether ==
    /\ ScoreAndDiscountAgree
    /\ [][/\ ScoreAndDiscountAgree'
          /\ (challenge_score = None) # (challenge_score' = None) =>
                (discount = None) # (discount' = None)
          /\ challenge_score # None => challenge_score' # None
          /\ discount # None => discount' # None]_vars

\* away from page 3, the session still holds a score of the 30% band and
\* the 30% discount
C11_Witness ==
    /\ page = 5
    /\ challenge_score.kind = "float"
    /\ 8 * Scale <= challenge_score.v /\ challenge_score.v < 9 * Scale
    /\ discount.kind = "dict"
    /\ discount.savings = "30%"

\* C12: joining the challenge is one-shot per session: team_info is set if
\* and only if masterclass_joined is true, masterclass_joined never becomes
\* false again, and once team_info is assigned no later event reassigns or
\* clears it.
C12_JoinIsOneShot ==
    /\ (team_info # None) <=> masterclass_joined
    /\ [][/\ (team_info' # None) <=> masterclass_joined'
          /\ masterclass_joined => masterclass_joined'
          /\ team_info # None => team_info' = team_info]_vars

\* back on page 2 after the challenge was scored, with the session joined,
\* its team assigned and the participation counter at its cap
C12_Witness ==
    /\ page = 2
    /\ masterclass_joined
    /\ team_info.kind = "dict"
    /\ Len(team_info.teammates) \in {2, 3}
    /\ challenge_score # None
    /\ participants = PyInt(ParticipantsCap)

====
